---- MODULE Spec2Model ----
(***************************************************************************)
(* file-cloud: the storage client of src/aws.go (AWSClient.UploadFile,     *)
(* AWSClient.LookupFile, the LRU cache in front of LookupFile) over an S3  *)
(* bucket, called concurrently by request handlers.                        *)
(*                                                                         *)
(* Strings are sequences of byte values (ASCII codes), so that prefix      *)
(* search, the bucket's key order and strings.Split are computed as the    *)
(* code and S3 compute them.  File contents are opaque values.             *)
(***************************************************************************)
EXTENDS Naturals, Integers, Sequences, FiniteSets, TLC

VARIABLES
    client,     \* the AWSClient built by NewAWSClient: [CDN, cacheOn]
    cache,      \* the lru.Cache entries, most recently used first
    store,      \* the S3 bucket: key -> [ContentType, Body]
    proc,       \* one record per request goroutine
    nops,       \* number of operations started so far
    webServer   \* the WebServer built by NewWebServer: [User, Pass, Plausible]

vars == <<client, cache, store, proc, nops, webServer>>

----------------------------------------------------------------------------
(* Bounds and program constants *)

MaxOps == 3

KEY_LENGTH == 5

CacheSize == 128

Procs == {1, 2}

----------------------------------------------------------------------------
(* Strings *)

\* "/"
SLASH == <<47>>

Take(s, n) == SubSeq(s, 1, IF n < Len(s) THEN n ELSE Len(s))

HasPrefix(s, p) == Len(p) <= Len(s) /\ SubSeq(s, 1, Len(p)) = p

\* byte-wise lexicographic order (the order in which S3 lists keys)
StrLess(a, b) ==
    \E i \in 1..Len(b) :
        /\ i <= Len(a) + 1
        /\ SubSeq(a, 1, i - 1) = SubSeq(b, 1, i - 1)
        /\ IF i = Len(a) + 1 THEN TRUE ELSE a[i] < b[i]

RECURSIVE Split(_, _)
\* strings.Split(s, sep) for a one-byte separator
Split(s, sep) ==
    IF \A i \in 1..Len(s) : s[i] # sep
    THEN <<s>>
    ELSE LET i == CHOOSE i \in 1..Len(s) : s[i] = sep /\ \A j \in 1..(i - 1) : s[j] # sep
         IN  <<SubSeq(s, 1, i - 1)>> \o Split(SubSeq(s, i + 1, Len(s)), sep)

\* "0123456789ABCDEF"[n]
HexDigit(n) == IF n < 10 THEN 48 + n ELSE 55 + n

\* net/url shouldEscape(c, encodeQueryComponent): letters, digits, - _ . ~ are kept
Unreserved(c) ==
    \/ c \in 48..57 \/ c \in 65..90 \/ c \in 97..122
    \/ c \in {45, 95, 46, 126}

RECURSIVE QueryEscape(_)
\* url.QueryEscape
QueryEscape(s) ==
    IF s = <<>> THEN <<>>
    ELSE LET c == Head(s)
             e == IF Unreserved(c) THEN <<c>>
                  ELSE IF c = 32 THEN <<43>>
                  ELSE <<37, HexDigit(c \div 16), HexDigit(c % 16)>>
         IN  e \o QueryEscape(Tail(s))

\* filepath.Base: the last element of the path, trailing separators removed;
\* "." for the empty path, "/" for a path of separators only
Base(path) ==
    IF path = <<>> THEN <<46>>
    ELSE IF \A i \in 1..Len(path) : path[i] = 47 THEN SLASH
    ELSE LET end   == CHOOSE i \in 1..Len(path) :
                          path[i] # 47 /\ \A j \in (i + 1)..Len(path) : path[j] = 47
             start == IF \A i \in 1..end : path[i] # 47 THEN 1
                      ELSE 1 + CHOOSE i \in 1..end :
                                   path[i] = 47 /\ \A j \in (i + 1)..end : path[j] # 47
         IN  SubSeq(path, start, end)

----------------------------------------------------------------------------
(* Inputs *)

\* file contents (byte strings) that requests upload; the two have digests
\* with the same first KEY_LENGTH characters
Contents == {"f29738", "f52122"}

\* "text/plain"
TextPlain == <<116,101,120,116,47,112,108,97,105,110>>

\* "image/png"
ImagePng == <<105,109,97,103,101,47,112,110,103>>

\* "a.txt"
NameATxt == <<97,46,116,120,116>>

\* "a", a proper prefix of "a.txt"
NameA == <<97>>

\* "image": a Content-Type header without a subtype
ImageBare == <<105,109,97,103,101>>

\* "b.PNG"
NameBPNG == <<98,46,80,78,71>>

\* "d/a": the part after the digest of a key that has two separators
NameDSlashA == <<100,47,97>>

\* "d/b.PNG": a file name as a browser sends it, with a directory in front
SentDSlashBPNG == <<100,47,98,46,80,78,71>>

\* the files handed to UploadFile: file name, Content-Type, bytes
Uploads ==
    { [name |-> NameATxt, ctype |-> ImagePng,  content |-> "f29738"],
      [name |-> NameA,    ctype |-> TextPlain, content |-> "f29738"],
      [name |-> NameBPNG, ctype |-> ImageBare, content |-> "f29738"],
      [name |-> NameATxt, ctype |-> TextPlain, content |-> "f52122"] }

\* "https://cdn.io"
CDNBase == <<104,116,116,112,115,58,47,47,99,100,110,46,105,111>>

\* base64.URLEncoding.WithPadding(NoPadding) of sha256(content)
Hash(content) ==
    CASE content = "f29738" ->
           \* zQtAT7a4yFrPVK0_CgDp1YvHfKsbFd-8hmnqZuI5f30
           <<122,81,116,65,84,55,97,52,121,70,114,80,86,75,48,95,67,103,68,112,49,89,118,72,
             102,75,115,98,70,100,45,56,104,109,110,113,90,117,73,53,102,51,48>>
      [] content = "f52122" ->
           \* zQtAT1qCCJ05o26d3ZpXsep0XyM6JG-xWnYYUU4jdzI
           <<122,81,116,65,84,49,113,67,67,74,48,53,111,50,54,100,51,90,112,88,115,101,112,48,
             88,121,77,54,74,71,45,120,87,110,89,89,85,85,52,106,100,122,73>>
      [] content = "hello world" ->
           \* uU0nuZNNPgilLlLX2n2r-sSE7-N6U4DukIj3rOLvzek
           <<117,85,48,110,117,90,78,78,80,103,105,108,76,108,76,88,50,110,50,114,45,115,83,69,
             55,45,78,54,85,52,68,117,107,73,106,51,114,79,76,118,122,101,107>>

\* prefixes handed to LookupFile by GET /<key>: the public token "zQtAT" of
\* both contents and the longer prefix "zQtAT7"
LookupPrefixes ==
    { Take(Hash(c), KEY_LENGTH) : c \in Contents }
        \cup { Take(Hash("f29738"), KEY_LENGTH + 1) }

----------------------------------------------------------------------------
(* src/aws.go: pure helpers *)

\* a Filename that joins digest and name without the separator
FilenameNoSeparator(originalName, content) == Hash(content) \o originalName

\* a Filename that leaves the name out of the key
FilenameHashOnly(originalName, content) == Hash(content) \o SLASH

Filename(originalName, content) == Hash(content) \o SLASH \o originalName

\* a formatKey that forgets to cut the key
formatKeyWhole(key) == SLASH \o key

formatKey(key) == SLASH \o SubSeq(key, 1, KEY_LENGTH)

\* the cache exists exactly when a CDN is configured
NewAWSClient(cdn) == [CDN |-> cdn, cacheOn |-> (cdn # <<>>)]

----------------------------------------------------------------------------
(* hashicorp/golang-lru as used by cacheGet / cacheSet *)

CacheKeys(c) == { c[i].k : i \in 1..Len(c) }

CacheIndex(c, key) == CHOOSE i \in 1..Len(c) : c[i].k = key

CacheValue(c, key) == c[CacheIndex(c, key)].v

CacheWithout(c, key) ==
    LET i == CacheIndex(c, key) IN SubSeq(c, 1, i - 1) \o SubSeq(c, i + 1, Len(c))

\* a Get that leaves the entry where it is (lru.Cache.Peek)
LruGetNoPromote(c, key) ==
    IF key \in CacheKeys(c)
    THEN [found |-> TRUE, value |-> <<CacheValue(c, key)>>, cache |-> c]
    ELSE [found |-> FALSE, value |-> <<>>, cache |-> c]

\* lru.Cache.Get: a hit moves the entry to the front
LruGet(c, key) ==
    IF key \in CacheKeys(c)
    THEN [found |-> TRUE, value |-> <<CacheValue(c, key)>>,
          cache |-> <<[k |-> key, v |-> CacheValue(c, key)]>> \o CacheWithout(c, key)]
    ELSE [found |-> FALSE, value |-> <<>>, cache |-> c]

\* lru.Cache.Add: insert or update at the front, evict the oldest beyond size
LruAdd(c, key, value) ==
    LET rest  == IF key \in CacheKeys(c) THEN CacheWithout(c, key) ELSE c
        added == <<[k |-> key, v |-> value]>> \o rest
    IN  IF Len(added) > CacheSize THEN SubSeq(added, 1, CacheSize) ELSE added

\* a cacheGet that never finds anything
cacheGetMiss(cl, c, key) == [found |-> FALSE, value |-> <<>>, cache |-> c]

cacheGet(cl, c, key) ==
    IF ~cl.cacheOn
    THEN [found |-> FALSE, value |-> <<>>, cache |-> c]
    ELSE LruGet(c, key)

\* a cacheSet that stores without asking whether a cache was set up
cacheSetAlways(cl, c, key, file) == LruAdd(c, key, file)

\* the cache after cacheSet (unchanged, with an error logged, when there is none)
cacheSet(cl, c, key, file) ==
    IF ~cl.cacheOn THEN c ELSE LruAdd(c, key, file)

----------------------------------------------------------------------------
(* The S3 collaborators *)

EmptyStore == [k \in {} |-> [ContentType |-> <<>>, Body |-> ""]]

\* a listing that answers with the last matching key instead of the first
ListObjectsV2Last(st, prefix) ==
    LET m == { k \in DOMAIN st : HasPrefix(k, prefix) }
    IN  IF m = {} THEN <<>>
        ELSE << CHOOSE k \in m : \A j \in m : j = k \/ StrLess(j, k) >>

\* ListObjectsV2 with Prefix and MaxKeys = 1: the first key in key order
ListObjectsV2(st, prefix) ==
    LET m == { k \in DOMAIN st : HasPrefix(k, prefix) }
    IN  IF m = {} THEN <<>>
        ELSE << CHOOSE k \in m : \A j \in m : j = k \/ StrLess(k, j) >>

\* a PutObject whose write is lost
PutObjectLost(st, key, contentType, body) == st

PutObject(st, key, contentType, body) ==
    [k \in DOMAIN st \cup {key} |->
        IF k = key THEN [ContentType |-> contentType, Body |-> body] ELSE st[k]]

\* "https://s3.io/" <key> "?sig": what the presign client answers for a key
PresignGetObject(key) ==
    <<104,116,116,112,115,58,47,47,115,51,46,105,111,47>> \o key \o <<63,115,105,103>>

----------------------------------------------------------------------------
(* One request goroutine *)

IdleProc ==
    [pc |-> "idle", op |-> "none",
     name |-> <<>>, ctype |-> <<>>, content |-> "",   \* UploadFile's fileHeader and file
     prefix |-> <<>>,                                 \* LookupFile's argument
     key |-> <<>>, objectKey |-> <<>>, objCtype |-> <<>>,
     file |-> <<>>,            \* *StoredFile: <<>> is nil, <<f>> points to f
     err |-> "nil",            \* "nil", "ErrorObjectMissing", "ErrorInvalidKey", "error"
     url |-> <<>>,             \* UploadFile's string result
     waiting |-> "none",       \* the call a stalled goroutine is blocked in
     \* history of the running operation
     called |-> FALSE,         \* a backing-store or presign call was made
     failed |-> FALSE,         \* some call failed, stalled, or the upload stream broke
     putCalled |-> FALSE,      \* PutObject was invoked
     listCount |-> -1,         \* KeyCount of the successful listing, -1 if none
     listedAt |-> 0,           \* number of objects in the bucket at that listing
     prior |-> <<>>,           \* <<url>> when an UploadFile of the same name and content
                               \* had returned url before this one started; for a
                               \* lookup, when an UploadFile had returned its token
     hit |-> <<>>,             \* <<file>> when the cache held file under the prefix
                               \* at the time the operation looked
     \* the HTTP request that the goroutine serves, and the response written
     req |-> <<>>,             \* <<request>>, <<>> when the client is called directly
     route |-> "none",         \* the handler the router chose
     ext |-> <<>>,             \* chi.URLParam(request, "ext")
     status |-> 0,             \* the status code written, 0 while there is none
     page |-> "none",          \* what the body is: a template's name, "json", ...
     location |-> <<>>]        \* the Location header of a redirect

\* a StoredFile that takes the digest part of the key as the name
StoredFileNameIsHash(parts, fileURL, contentType) ==
    [OriginalName |-> parts[1],
     Url          |-> fileURL,
     Image        |-> Split(contentType, 47)[1] = <<105,109,97,103,101>>]

\* a StoredFile that compares the whole content type with "image"
StoredFileWholeType(parts, fileURL, contentType) ==
    [OriginalName |-> parts[2],
     Url          |-> fileURL,
     Image        |-> contentType = <<105,109,97,103,101>>]

\* the StoredFile built at aws.go:192-196
StoredFile(parts, fileURL, contentType) ==
    [OriginalName |-> parts[2],
     Url          |-> fileURL,
     Image        |-> Split(contentType, 47)[1] = <<105,109,97,103,101>>]

\* LookupFile's frame is gone once it has returned into UploadFile
PopLookup(r) ==
    [r EXCEPT !.objectKey = <<>>, !.objCtype = <<>>, !.listCount = -1, !.listedAt = 0]

\* an UploadFile that ignores the file its existence check found
AfterLookupNoDedup(r, file, err) ==
    IF r.op = "lookup"
    THEN [r EXCEPT !.pc = "done", !.file = file, !.err = err]
    ELSE IF err # "nil" /\ err # "ErrorObjectMissing"
         THEN [PopLookup(r) EXCEPT !.pc = "done", !.url = <<>>, !.err = err]
         ELSE [PopLookup(r) EXCEPT !.pc = "put"]

\* Where control goes when LookupFile returns (file, err): to the caller of a
\* lookup request, or back into UploadFile at aws.go:108-116.
AfterLookup(r, file, err) ==
    IF r.op = "lookup"
    THEN [r EXCEPT !.pc = "done", !.file = file, !.err = err]
    ELSE IF file # <<>>
         THEN [PopLookup(r) EXCEPT !.pc = "done", !.url = formatKey(r.key), !.err = "nil"]
         ELSE IF err # "nil" /\ err # "ErrorObjectMissing"
              THEN [PopLookup(r) EXCEPT !.pc = "done", !.url = <<>>, !.err = err]
              ELSE [PopLookup(r) EXCEPT !.pc = "put"]

\* aws.go:137-141: the cache check that opens LookupFile
LookupStart(r, cl, c) ==
    LET g == cacheGet(cl, c, r.prefix)
    IN  IF g.found
        THEN [p |-> AfterLookup(r, g.value, "nil"), cache |-> g.cache]
        ELSE [p |-> [r EXCEPT !.pc = "list"], cache |-> c]

\* a listing answer that reports an empty listing as a generic error
ListResultEmptyIsError(r, st, ok) ==
    IF ~ok THEN AfterLookup(r, <<>>, "error")
    ELSE LET l == ListObjectsV2(st, r.prefix)
         IN  IF Len(l) < 1
             THEN AfterLookup([r EXCEPT !.listCount = 0], <<>>, "error")
             ELSE [r EXCEPT !.pc = "get", !.objectKey = l[1], !.listCount = Len(l),
                            !.listedAt = Cardinality(DOMAIN st)]

\* aws.go:152-161: the answer of ListObjectsV2
ListResult(r, st, ok) ==
    IF ~ok THEN AfterLookup(r, <<>>, "error")
    ELSE LET l == ListObjectsV2(st, r.prefix)
         IN  IF Len(l) < 1
             THEN AfterLookup([r EXCEPT !.listCount = 0], <<>>, "ErrorObjectMissing")
             ELSE [r EXCEPT !.pc = "get", !.objectKey = l[1], !.listCount = Len(l),
                            !.listedAt = Cardinality(DOMAIN st)]

\* aws.go:198-203: store in the cache and return the file
LookupFinish(r, cl, c, file) ==
    [p |-> AfterLookup(r, <<file>>, "nil"), cache |-> cacheSet(cl, c, r.prefix, file)]

\* a LookupFile that passes on the error of GetObject
GetResultErrorPassedOn(r, cl, c, st, ok) ==
    IF ~ok THEN [p |-> AfterLookup(r, <<>>, "error"), cache |-> c]
    ELSE LET parts == Split(r.objectKey, 47)
             ctype == st[r.objectKey].ContentType
         IN  IF Len(parts) < 2
             THEN [p |-> AfterLookup(r, <<>>, "ErrorInvalidKey"), cache |-> c]
             ELSE IF cl.CDN = <<>>
                  THEN [p |-> [r EXCEPT !.pc = "presign", !.objCtype = ctype], cache |-> c]
                  ELSE LookupFinish([r EXCEPT !.objCtype = ctype], cl, c,
                           StoredFile(parts, cl.CDN \o SLASH \o QueryEscape(r.objectKey),
                                      ctype))

\* a LookupFile that builds the CDN url from the prefix it was asked for
GetResultUrlFromPrefix(r, cl, c, st, ok) ==
    IF ~ok THEN [p |-> AfterLookup(r, <<>>, "ErrorObjectMissing"), cache |-> c]
    ELSE LET parts == Split(r.objectKey, 47)
             ctype == st[r.objectKey].ContentType
         IN  IF Len(parts) < 2
             THEN [p |-> AfterLookup(r, <<>>, "ErrorInvalidKey"), cache |-> c]
             ELSE IF cl.CDN = <<>>
                  THEN [p |-> [r EXCEPT !.pc = "presign", !.objCtype = ctype], cache |-> c]
                  ELSE LookupFinish([r EXCEPT !.objCtype = ctype], cl, c,
                           StoredFile(parts, cl.CDN \o SLASH \o QueryEscape(r.prefix),
                                      ctype))

\* a LookupFile that asks the presign client whether or not a CDN is configured
GetResultPresignAlways(r, cl, c, st, ok) ==
    IF ~ok THEN [p |-> AfterLookup(r, <<>>, "ErrorObjectMissing"), cache |-> c]
    ELSE LET parts == Split(r.objectKey, 47)
             ctype == st[r.objectKey].ContentType
         IN  IF Len(parts) < 2
             THEN [p |-> AfterLookup(r, <<>>, "ErrorInvalidKey"), cache |-> c]
             ELSE [p |-> [r EXCEPT !.pc = "presign", !.objCtype = ctype], cache |-> c]

\* aws.go:168-196: the answer of GetObject, the key check and the CDN url
GetResult(r, cl, c, st, ok) ==
    IF ~ok THEN [p |-> AfterLookup(r, <<>>, "ErrorObjectMissing"), cache |-> c]
    ELSE LET parts == Split(r.objectKey, 47)
             ctype == st[r.objectKey].ContentType
         IN  IF Len(parts) < 2
             THEN [p |-> AfterLookup(r, <<>>, "ErrorInvalidKey"), cache |-> c]
             ELSE IF cl.CDN = <<>>
                  THEN [p |-> [r EXCEPT !.pc = "presign", !.objCtype = ctype], cache |-> c]
                  ELSE LookupFinish([r EXCEPT !.objCtype = ctype], cl, c,
                           StoredFile(parts, cl.CDN \o SLASH \o QueryEscape(r.objectKey),
                                      ctype))

\* aws.go:180-185, 192-203: the answer of PresignGetObject
PresignResult(r, cl, c, ok) ==
    IF ~ok THEN [p |-> AfterLookup(r, <<>>, "error"), cache |-> c]
    ELSE LookupFinish(r, cl, c,
             StoredFile(Split(r.objectKey, 47), PresignGetObject(r.objectKey), r.objCtype))

\* aws.go:122-133: the answer of PutObject
PutResult(r, ok) ==
    IF ~ok THEN [r EXCEPT !.pc = "done", !.url = <<>>, !.err = "error"]
    ELSE [r EXCEPT !.pc = "done", !.url = formatKey(r.key), !.err = "nil"]

\* The context each call runs under: LookupFile's calls share the context
\* with s3Timeout (aws.go:143), PutObject gets context.Background()
\* (aws.go:122), the request to Plausible has no context and its client no
\* Timeout (web.go:199-208).
HasDeadline(call) == call \in {"list", "get", "presign"}

----------------------------------------------------------------------------
(* src/web.go: the router and the handlers *)

NewWebServer(user, pass, plausible) ==
    [User |-> user, Pass |-> pass, Plausible |-> plausible]

\* utf8.DecodeRuneInString(s[i:]): the rune and its width in bytes; a byte
\* that starts no valid encoding is RuneError (U+FFFD) of width 1
DecodeRune(s, i) ==
    LET b0      == s[i]
        cont(k) == i + k <= Len(s) /\ s[i + k] \in 128..191
        bad     == [r |-> 65533, w |-> 1]
    IN  IF b0 < 128 THEN [r |-> b0, w |-> 1]
        ELSE IF b0 \in 194..223
        THEN IF cont(1)
             THEN [r |-> (b0 - 192) * 64 + (s[i + 1] - 128), w |-> 2]
             ELSE bad
        ELSE IF b0 \in 224..239
        THEN IF /\ cont(1)
                /\ cont(2)
                /\ (b0 = 224 => s[i + 1] >= 160)
                /\ (b0 = 237 => s[i + 1] <= 159)
             THEN [r |-> (b0 - 224) * 4096 + (s[i + 1] - 128) * 64 + (s[i + 2] - 128),
                   w |-> 3]
             ELSE bad
        ELSE IF b0 \in 240..244
        THEN IF /\ cont(1)
                /\ cont(2)
                /\ cont(3)
                /\ (b0 = 240 => s[i + 1] >= 144)
                /\ (b0 = 244 => s[i + 1] <= 143)
             THEN [r |-> (b0 - 240) * 262144 + (s[i + 1] - 128) * 4096
                           + (s[i + 2] - 128) * 64 + (s[i + 3] - 128),
                   w |-> 4]
             ELSE bad
        ELSE bad

\* utf8.AppendRune
EncodeRune(r) ==
    IF r < 128 THEN <<r>>
    ELSE IF r < 2048 THEN <<192 + (r \div 64), 128 + (r % 64)>>
    ELSE IF r < 65536
    THEN <<224 + (r \div 4096), 128 + ((r \div 64) % 64), 128 + (r % 64)>>
    ELSE <<240 + (r \div 262144), 128 + ((r \div 4096) % 64),
           128 + ((r \div 64) % 64), 128 + (r % 64)>>

\* unicode.CaseRanges, the lower-case part: <<Lo, Hi, stride, delta>> says that
\* the runes Lo, Lo + stride, ..., Hi have the lower case rune + delta
CaseRanges ==
    << <<65, 90, 1, 32>>, <<192, 214, 1, 32>>, <<216, 222, 1, 32>>,
       <<256, 302, 2, 1>>, <<304, 304, 1, -199>>, <<306, 310, 2, 1>>,
       <<313, 327, 2, 1>>, <<330, 374, 2, 1>>, <<376, 376, 1, -121>>,
       <<377, 381, 2, 1>>, <<385, 385, 1, 210>>, <<386, 388, 2, 1>>,
       <<390, 390, 1, 206>>, <<391, 391, 1, 1>>, <<393, 394, 1, 205>>,
       <<395, 395, 1, 1>>, <<398, 398, 1, 79>>, <<399, 399, 1, 202>>,
       <<400, 400, 1, 203>>, <<401, 401, 1, 1>>, <<403, 403, 1, 205>>,
       <<404, 404, 1, 207>>, <<406, 406, 1, 211>>, <<407, 407, 1, 209>>,
       <<408, 408, 1, 1>>, <<412, 412, 1, 211>>, <<413, 413, 1, 213>>,
       <<415, 415, 1, 214>>, <<416, 420, 2, 1>>, <<422, 422, 1, 218>>,
       <<423, 423, 1, 1>>, <<425, 425, 1, 218>>, <<428, 428, 1, 1>>,
       <<430, 430, 1, 218>>, <<431, 431, 1, 1>>, <<433, 434, 1, 217>>,
       <<435, 437, 2, 1>>, <<439, 439, 1, 219>>, <<440, 440, 1, 1>>,
       <<444, 444, 1, 1>>, <<452, 452, 1, 2>>, <<453, 453, 1, 1>>,
       <<455, 455, 1, 2>>, <<456, 456, 1, 1>>, <<458, 458, 1, 2>>,
       <<459, 475, 2, 1>>, <<478, 494, 2, 1>>, <<497, 497, 1, 2>>,
       <<498, 500, 2, 1>>, <<502, 502, 1, -97>>, <<503, 503, 1, -56>>,
       <<504, 542, 2, 1>>, <<544, 544, 1, -130>>, <<546, 562, 2, 1>>,
       <<570, 570, 1, 10795>>, <<571, 571, 1, 1>>, <<573, 573, 1, -163>>,
       <<574, 574, 1, 10792>>, <<577, 577, 1, 1>>, <<579, 579, 1, -195>>,
       <<580, 580, 1, 69>>, <<581, 581, 1, 71>>, <<582, 590, 2, 1>>,
       <<880, 882, 2, 1>>, <<886, 886, 1, 1>>, <<895, 895, 1, 116>>,
       <<902, 902, 1, 38>>, <<904, 906, 1, 37>>, <<908, 908, 1, 64>>,
       <<910, 911, 1, 63>>, <<913, 929, 1, 32>>, <<931, 939, 1, 32>>,
       <<975, 975, 1, 8>>, <<984, 1006, 2, 1>>, <<1012, 1012, 1, -60>>,
       <<1015, 1015, 1, 1>>, <<1017, 1017, 1, -7>>, <<1018, 1018, 1, 1>>,
       <<1021, 1023, 1, -130>>, <<1024, 1039, 1, 80>>,
       <<1040, 1071, 1, 32>>, <<1120, 1152, 2, 1>>, <<1162, 1214, 2, 1>>,
       <<1216, 1216, 1, 15>>, <<1217, 1229, 2, 1>>, <<1232, 1326, 2, 1>>,
       <<1329, 1366, 1, 48>>, <<4256, 4293, 1, 7264>>,
       <<4295, 4295, 1, 7264>>, <<4301, 4301, 1, 7264>>,
       <<5024, 5103, 1, 38864>>, <<5104, 5109, 1, 8>>,
       <<7312, 7354, 1, -3008>>, <<7357, 7359, 1, -3008>>,
       <<7680, 7828, 2, 1>>, <<7838, 7838, 1, -7615>>, <<7840, 7934, 2, 1>>,
       <<7944, 7951, 1, -8>>, <<7960, 7965, 1, -8>>, <<7976, 7983, 1, -8>>,
       <<7992, 7999, 1, -8>>, <<8008, 8013, 1, -8>>, <<8025, 8031, 2, -8>>,
       <<8040, 8047, 1, -8>>, <<8072, 8079, 1, -8>>, <<8088, 8095, 1, -8>>,
       <<8104, 8111, 1, -8>>, <<8120, 8121, 1, -8>>, <<8122, 8123, 1, -74>>,
       <<8124, 8124, 1, -9>>, <<8136, 8139, 1, -86>>, <<8140, 8140, 1, -9>>,
       <<8152, 8153, 1, -8>>, <<8154, 8155, 1, -100>>,
       <<8168, 8169, 1, -8>>, <<8170, 8171, 1, -112>>,
       <<8172, 8172, 1, -7>>, <<8184, 8185, 1, -128>>,
       <<8186, 8187, 1, -126>>, <<8188, 8188, 1, -9>>,
       <<8486, 8486, 1, -7517>>, <<8490, 8490, 1, -8383>>,
       <<8491, 8491, 1, -8262>>, <<8498, 8498, 1, 28>>,
       <<8544, 8559, 1, 16>>, <<8579, 8579, 1, 1>>, <<9398, 9423, 1, 26>>,
       <<11264, 11311, 1, 48>>, <<11360, 11360, 1, 1>>,
       <<11362, 11362, 1, -10743>>, <<11363, 11363, 1, -3814>>,
       <<11364, 11364, 1, -10727>>, <<11367, 11371, 2, 1>>,
       <<11373, 11373, 1, -10780>>, <<11374, 11374, 1, -10749>>,
       <<11375, 11375, 1, -10783>>, <<11376, 11376, 1, -10782>>,
       <<11378, 11378, 1, 1>>, <<11381, 11381, 1, 1>>,
       <<11390, 11391, 1, -10815>>, <<11392, 11490, 2, 1>>,
       <<11499, 11501, 2, 1>>, <<11506, 11506, 1, 1>>,
       <<42560, 42604, 2, 1>>, <<42624, 42650, 2, 1>>,
       <<42786, 42798, 2, 1>>, <<42802, 42862, 2, 1>>,
       <<42873, 42875, 2, 1>>, <<42877, 42877, 1, -35332>>,
       <<42878, 42886, 2, 1>>, <<42891, 42891, 1, 1>>,
       <<42893, 42893, 1, -42280>>, <<42896, 42898, 2, 1>>,
       <<42902, 42920, 2, 1>>, <<42922, 42922, 1, -42308>>,
       <<42923, 42923, 1, -42319>>, <<42924, 42924, 1, -42315>>,
       <<42925, 42925, 1, -42305>>, <<42926, 42926, 1, -42308>>,
       <<42928, 42928, 1, -42258>>, <<42929, 42929, 1, -42282>>,
       <<42930, 42930, 1, -42261>>, <<42931, 42931, 1, 928>>,
       <<42932, 42946, 2, 1>>, <<42948, 42948, 1, -48>>,
       <<42949, 42949, 1, -42307>>, <<42950, 42950, 1, -35384>>,
       <<42951, 42953, 2, 1>>, <<42960, 42960, 1, 1>>,
       <<42966, 42968, 2, 1>>, <<42997, 42997, 1, 1>>,
       <<65313, 65338, 1, 32>>, <<66560, 66599, 1, 40>>,
       <<66736, 66771, 1, 40>>, <<66928, 66938, 1, 39>>,
       <<66940, 66954, 1, 39>>, <<66956, 66962, 1, 39>>,
       <<66964, 66965, 1, 39>>, <<68736, 68786, 1, 64>>,
       <<71840, 71871, 1, 32>>, <<93760, 93791, 1, 32>>,
       <<125184, 125217, 1, 34>> >>

\* unicode.ToLower: the rune's lower case, the rune itself when it has none
LowerRune(r) ==
    LET hit == { i \in 1..Len(CaseRanges) :
                    /\ CaseRanges[i][1] <= r
                    /\ r <= CaseRanges[i][2]
                    /\ (r - CaseRanges[i][1]) % CaseRanges[i][3] = 0 }
    IN  IF hit = {} THEN r ELSE r + CaseRanges[CHOOSE i \in hit : TRUE][4]

RECURSIVE MapLower(_, _)
\* strings.Map(unicode.ToLower, s) from byte i on: an invalid byte comes out
\* as the encoding of RuneError
MapLower(s, i) ==
    IF i > Len(s) THEN <<>>
    ELSE LET d == DecodeRune(s, i)
         IN  EncodeRune(LowerRune(d.r)) \o MapLower(s, i + d.w)

\* strings.ToLower: byte by byte when s is all ASCII, by runes otherwise
ToLower(s) ==
    IF \A i \in 1..Len(s) : s[i] < 128
    THEN [i \in 1..Len(s) |-> IF s[i] \in 65..90 THEN s[i] + 32 ELSE s[i]]
    ELSE MapLower(s, 1)

\* strings.EqualFold(s, t) for a t of ASCII characters without k and s, the
\* only ASCII letters that a rune outside ASCII folds to: equality up to the
\* case of ASCII letters
EqualFold(s, t) ==
    /\ Len(s) = Len(t)
    /\ \A i \in 1..Len(s) :
          (IF s[i] \in 65..90 THEN s[i] + 32 ELSE s[i])
            = (IF t[i] \in 65..90 THEN t[i] + 32 ELSE t[i])

\* filepath.Ext: the suffix that starts at the last "." of the last element
\* of the name, "" if that element has none
Ext(name) ==
    IF \A i \in 1..Len(name) :
           name[i] # 46 \/ \E j \in (i + 1)..Len(name) : name[j] \in {46, 47}
    THEN <<>>
    ELSE LET i == CHOOSE i \in 1..Len(name) :
                      name[i] = 46 /\ \A j \in (i + 1)..Len(name) : name[j] \notin {46, 47}
         IN  SubSeq(name, i, Len(name))

\* a key pattern without its minimum length
KeyReAnyLength(s) ==
    /\ Len(s) >= 1
    /\ \A i \in 1..Len(s) :
          \/ s[i] \in 48..57 \/ s[i] \in 65..90 \/ s[i] \in 97..122
          \/ s[i] \in {45, 95, 61}

\* ^[a-zA-Z0-9-_=]{KEY_LENGTH,}$
KeyRe(s) ==
    /\ Len(s) >= KEY_LENGTH
    /\ \A i \in 1..Len(s) :
          \/ s[i] \in 48..57 \/ s[i] \in 65..90 \/ s[i] \in 97..122
          \/ s[i] \in {45, 95, 61}

\* ^[a-zA-Z]{3,}$
ExtRe(s) ==
    /\ Len(s) >= 3
    /\ \A i \in 1..Len(s) : s[i] \in 65..90 \/ s[i] \in 97..122

\* "/ping"
PingPath == <<47, 112, 105, 110, 103>>

\* middleware.Heartbeat("/ping"): GET or HEAD of the endpoint, compared with
\* EqualFold
Heartbeat(req) == req.method \in {"GET", "HEAD"} /\ EqualFold(req.path, PingPath)

\* "/static/"
StaticPrefix == <<47, 115, 116, 97, 116, 105, 99, 47>>

\* "app.js"
NameAppJs == <<97, 112, 112, 46, 106, 115>>

\* "/index.html"
IndexPage == <<47, 105, 110, 100, 101, 120, 46, 104, 116, 109, 108>>

\* the files of the embedded directory static/
StaticFiles == { NameAppJs }

\* the embedded file system as http.FS(static) serves it: its directories and
\* its files, by rooted name
StaticDirs == { SLASH, Take(StaticPrefix, Len(StaticPrefix) - 1) }

StaticPaths == { StaticPrefix \o f : f \in StaticFiles }

RECURSIVE CleanStack(_, _)
\* path.Clean of a rooted path, element by element: "" and "." are dropped,
\* ".." drops the element before it, and is dropped itself at the root
CleanStack(parts, stack) ==
    IF parts = <<>> THEN stack
    ELSE LET e == Head(parts)
         IN  CleanStack(Tail(parts),
                 IF e = <<>> \/ e = <<46>> THEN stack
                 ELSE IF e = <<46, 46>>
                 THEN SubSeq(stack, 1, Len(stack) - 1)
                 ELSE Append(stack, e))

RECURSIVE JoinRooted(_)
JoinRooted(stack) ==
    IF stack = <<>> THEN <<>> ELSE SLASH \o Head(stack) \o JoinRooted(Tail(stack))

\* path.Clean of a path that begins with "/"
Clean(path) ==
    LET stack == CleanStack(Split(path, 47), <<>>)
    IN  IF stack = <<>> THEN SLASH ELSE JoinRooted(stack)

\* the methods chi knows (its methodMap)
ChiMethods ==
    {"CONNECT", "DELETE", "GET", "HEAD", "OPTIONS", "PATCH", "POST", "PUT", "TRACE"}

\* chi.Mux.routeHTTP: the path the routes are matched against is URL.RawPath
\* when the request has one, URL.Path otherwise, and "/" when that is empty
RoutePath(req) ==
    LET path == IF req.rawPath # <<>> THEN req.rawPath ELSE req.path
    IN  IF path = <<>> THEN SLASH ELSE path

\* a wrapper that compares the user only
BasicAuthWrapperUserOnly(ws, req, next) ==
    IF req.auth # <<>> /\ req.auth[1] = ws.User
    THEN next
    ELSE "Unauthorized"

\* BasicAuthWrapper: next is served only when the request has parsable basic
\* auth whose user and password both equal the configured ones
BasicAuthWrapper(ws, req, next) ==
    IF req.auth # <<>> /\ req.auth[1] = ws.User /\ req.auth[2] = ws.Pass
    THEN next
    ELSE "Unauthorized"

\* web.go:51-59: GET / and POST / are wrapped unless user and pass are both ""
Protected(ws, req, next) ==
    IF ws.User = <<>> /\ ws.Pass = <<>> THEN next ELSE BasicAuthWrapper(ws, req, next)

\* The routes of NewWebServer as chi matches them: the handler, and the URL
\* parameters key and ext.  The heartbeat middleware comes first and looks at
\* URL.Path; the router then answers 405 to a method it does not know, and
\* matches the route path.  The segment after "/" is a key when all of it
\* matches the key pattern; otherwise it is cut at its first "." into key and
\* ext.  "/static/*" takes every method and every path below "/static/".
Router(ws, req) ==
    LET path == RoutePath(req)
        seg == Tail(path)
        dot == IF \E i \in 1..Len(seg) : seg[i] = 46
               THEN CHOOSE i \in 1..Len(seg) : seg[i] = 46 /\ \A j \in 1..(i - 1) : seg[j] # 46
               ELSE 0
        to(h, key, ext) == [handler |-> h, key |-> key, ext |-> ext]
        get(h, key, ext) == IF req.method = "GET" THEN to(h, key, ext)
                            ELSE to("MethodNotAllowed", <<>>, <<>>)
    IN  IF Heartbeat(req) THEN to("Heartbeat", <<>>, <<>>)
        ELSE IF req.method \notin ChiMethods THEN to("MethodNotAllowed", <<>>, <<>>)
        ELSE IF path[1] # 47 THEN to("NotFound", <<>>, <<>>)
        ELSE IF path = SLASH
        THEN IF req.method = "GET" THEN to(Protected(ws, req, "IndexHandler"), <<>>, <<>>)
             ELSE IF req.method = "POST"
                  THEN to(Protected(ws, req, "UploadHandler"), <<>>, <<>>)
                  ELSE to("MethodNotAllowed", <<>>, <<>>)
        ELSE IF HasPrefix(path, StaticPrefix) THEN to("FileServer", <<>>, <<>>)
        ELSE IF KeyRe(seg) THEN get("LookupHandler", seg, <<>>)
        ELSE IF dot > 0 /\ KeyRe(SubSeq(seg, 1, dot - 1))
                        /\ ExtRe(SubSeq(seg, dot + 1, Len(seg)))
        THEN get("DirectHandler", SubSeq(seg, 1, dot - 1), SubSeq(seg, dot + 1, Len(seg)))
        ELSE to("NotFound", <<>>, <<>>)

\* http.FileServer(http.FS(static)) on URL.Path: a path that ends in
\* "/index.html" is redirected to "./"; the cleaned path is opened; a
\* directory asked for without a final "/" and a file asked for with one are
\* redirected; a directory is answered with its index.html or its listing, a
\* file with its content
FileServer(r, urlPath) ==
    LET upath    == IF urlPath = <<>> \/ urlPath[1] # 47 THEN SLASH \o urlPath ELSE urlPath
        name     == Clean(upath)
        slash    == upath[Len(upath)] = 47
        index    == (IF name = SLASH THEN <<>> ELSE name) \o IndexPage
        redirect(to) == [r EXCEPT !.status = 301, !.page = "redirect", !.location = to]
    IN  IF Len(upath) >= Len(IndexPage)
           /\ SubSeq(upath, Len(upath) - Len(IndexPage) + 1, Len(upath)) = IndexPage
        THEN redirect(<<46, 47>>)
        ELSE IF name \notin StaticDirs \cup StaticPaths
        THEN [r EXCEPT !.status = 404, !.page = "404 page not found"]
        ELSE IF name \in StaticDirs
        THEN IF ~slash THEN redirect(Base(upath) \o SLASH)
             ELSE IF index \in StaticPaths
                  THEN [r EXCEPT !.status = 200, !.page = "static"]
                  ELSE [r EXCEPT !.status = 200, !.page = "listing"]
        ELSE IF slash
        THEN IF Base(upath) \in {SLASH, <<46>>}
             THEN [r EXCEPT !.status = 500, !.page = "error"]
             ELSE redirect(<<46, 46, 47>> \o Base(upath))
        ELSE [r EXCEPT !.status = 200, !.page = "static"]

\* a ServeError that answers every error with the "404" page
ServeErrorAlwaysNotFound(r, err) == [r EXCEPT !.status = 404, !.page = "404"]

\* ServeError: the "404" template for ErrorObjectMissing, http.Error 500 otherwise
ServeError(r, err) ==
    IF err = "ErrorObjectMissing"
    THEN [r EXCEPT !.status = 404, !.page = "404"]
    ELSE [r EXCEPT !.status = 500, !.page = "error"]

\* LookupHandler after LookupFile has returned
LookupHandler(r) ==
    IF r.err # "nil" THEN ServeError(r, r.err)
    ELSE [r EXCEPT !.status = 200, !.page = "file"]

\* http.Redirect(writer, request, file.Url, http.StatusMovedPermanently)
Redirect(r) ==
    [r EXCEPT !.pc = "done", !.status = 301, !.page = "redirect",
              !.location = r.file[1].Url]

\* a DirectHandler that compares the extensions as they are written
DirectHandlerCaseSensitive(ws, r) ==
    IF r.err # "nil" THEN ServeError(r, r.err)
    ELSE IF Ext(r.file[1].OriginalName) # <<46>> \o r.ext
         THEN ServeError(r, "ErrorObjectMissing")
         ELSE IF Len(ws.Plausible) > 0
              THEN [r EXCEPT !.pc = "plausible"]
              ELSE Redirect(r)

\* DirectHandler after LookupFile has returned: with a Plausible domain the
\* handler posts the page view (logPlausibleEvent, an http.Client without
\* timeout) and redirects only after that call has come back
DirectHandler(ws, r) ==
    IF r.err # "nil" THEN ServeError(r, r.err)
    ELSE LET ext     == ToLower(r.ext)
             fileExt == ToLower(Ext(r.file[1].OriginalName))
         IN  IF fileExt # <<46>> \o ext
             THEN ServeError(r, "ErrorObjectMissing")
             ELSE IF Len(ws.Plausible) > 0
                  THEN [r EXCEPT !.pc = "plausible"]
                  ELSE Redirect(r)

\* UploadHandler after UploadFile has returned
UploadHandler(r) ==
    IF r.err # "nil" THEN ServeError(r, r.err)
    ELSE [r EXCEPT !.status = 200, !.page = "json"]

\* the handler goes on once the storage client has returned
Respond(ws, r) ==
    IF r.pc # "done" THEN r
    ELSE CASE r.route = "LookupHandler" -> LookupHandler(r)
           [] r.route = "DirectHandler" -> DirectHandler(ws, r)
           [] r.route = "UploadHandler" -> UploadHandler(r)
           [] OTHER -> r

----------------------------------------------------------------------------
(* The state machine *)

\* The bucket outlives the process: a start may find an object that an
\* earlier run uploaded ("a.txt" with the bytes "f29738").
EarlierStore ==
    PutObject(EmptyStore, Filename(NameATxt, "f29738"), TextPlain, "f29738")

Init ==
    /\ client \in { NewAWSClient(cdn) : cdn \in {<<>>, CDNBase} }
    /\ cache = <<>>
    /\ store \in {EmptyStore, EarlierStore}
    /\ proc = [p \in Procs |-> IdleProc]
    /\ nops = 0
    /\ webServer = NewWebServer(<<>>, <<>>, <<>>)

Busy(q) == proc[q].pc \notin {"idle", "done"}

\* history: <<url>> when some goroutine's last request was an UploadFile that
\* computed this key and returned url
PriorUpload(key) ==
    IF \E q \in Procs : proc[q].pc = "done" /\ proc[q].op = "upload"
                          /\ proc[q].err = "nil" /\ proc[q].key = key
    THEN << proc[CHOOSE q \in Procs : proc[q].pc = "done" /\ proc[q].op = "upload"
                          /\ proc[q].err = "nil" /\ proc[q].key = key].url >>
    ELSE <<>>

\* history: <<url>> when some goroutine's last request was an UploadFile that
\* returned the url "/" prefix, the public token that a lookup of prefix asks for
Issued(prefix) ==
    IF \E q \in Procs : proc[q].pc = "done" /\ proc[q].op = "upload"
                          /\ proc[q].err = "nil" /\ proc[q].url = SLASH \o prefix
    THEN << SLASH \o prefix >>
    ELSE <<>>

\* the value under key in the cache, as a pointer (<<>> when absent)
Cached(c, key) == IF key \in CacheKeys(c) THEN <<CacheValue(c, key)>> ELSE <<>>

\* GET /<key> and GET /<key>.<ext> call LookupFile(prefix); the goroutine is
\* free, or its last request has been answered (pc = "done")
StartLookup(p, prefix) ==
    /\ proc[p].pc \in {"idle", "done"}
    /\ nops < MaxOps
    /\ LET r == [IdleProc EXCEPT !.op = "lookup", !.prefix = prefix,
                                 !.prior = Issued(prefix),
                                 !.hit = Cached(cache, prefix)]
           s == LookupStart(r, client, cache)
       IN  /\ proc' = [proc EXCEPT ![p] = s.p]
           /\ cache' = s.cache
    /\ nops' = nops + 1
    /\ UNCHANGED <<client, store, webServer>>

\* POST / calls UploadFile: Filename reads the stream (aws.go:97-105), then
\* LookupFile(key) opens the existence check (aws.go:107)
StartUpload(p, u) ==
    /\ proc[p].pc \in {"idle", "done"}
    /\ nops < MaxOps
    /\ LET key == Filename(u.name, u.content)
           r   == [IdleProc EXCEPT !.op = "upload", !.name = u.name, !.ctype = u.ctype,
                                   !.content = u.content, !.key = key, !.prefix = key,
                                   !.prior = PriorUpload(key),
                                   !.hit = Cached(cache, key)]
           s   == LookupStart(r, client, cache)
       IN  /\ proc' = [proc EXCEPT ![p] = s.p]
           /\ cache' = s.cache
    /\ nops' = nops + 1
    /\ UNCHANGED <<client, store, webServer>>

\* the upload's stream cannot be read or rewound (aws.go:97-105): UploadFile
\* returns the error before it has a key
UploadReadFails(p) ==
    /\ proc[p].pc \in {"idle", "done"}
    /\ nops < MaxOps
    /\ proc' = [proc EXCEPT ![p] = [IdleProc EXCEPT !.op = "upload", !.pc = "done",
                                                   !.err = "error", !.failed = TRUE]]
    /\ nops' = nops + 1
    /\ UNCHANGED <<client, cache, store, webServer>>

\* The call `call` of goroutine p returns, with success or with an error.
\* The error of the Plausible call is logged and the redirect goes out as
\* after a success (web.go:208-211, 145).
Complete(p, call, ok) ==
    LET r   == [proc[p] EXCEPT !.called = TRUE, !.failed = @ \/ ~ok,
                                !.putCalled = @ \/ call = "put"]
        res == CASE call = "list"      -> [p |-> ListResult(r, store, ok), cache |-> cache]
                 [] call = "get"       -> GetResult(r, client, cache, store, ok)
                 [] call = "presign"   -> PresignResult(r, client, cache, ok)
                 [] call = "put"       -> [p |-> PutResult(r, ok), cache |-> cache]
                 [] call = "plausible" -> [p |-> Redirect(proc[p]), cache |-> cache]
    IN  /\ proc' = [proc EXCEPT ![p] = IF call = "plausible" THEN res.p
                                       ELSE Respond(webServer, res.p)]
        /\ cache' = res.cache
        /\ store' = IF call = "put" /\ ok
                    THEN PutObject(store, r.key, r.ctype, r.content)
                    ELSE store
        /\ UNCHANGED <<client, nops, webServer>>

\* the calls a goroutine waits in: the three of LookupFile, PutObject, and the
\* POST of the page view to Plausible
Calls == {"list", "get", "presign", "put", "plausible"}

\* the backing store, the presign client or Plausible answers the pending call
CallReturns(p) ==
    /\ proc[p].pc \in Calls
    /\ Complete(p, proc[p].pc, TRUE)

\* the pending call fails at once
CallFails(p) ==
    /\ proc[p].pc \in Calls
    /\ Complete(p, proc[p].pc, FALSE)

\* The other side stalls on the pending call and never answers it.  Under a
\* context with a deadline the call returns the context's error when the
\* deadline passes; without one the goroutine stays blocked in the call.
CallStalls(p) ==
    /\ proc[p].pc \in Calls
    /\ IF HasDeadline(proc[p].pc)
       THEN Complete(p, proc[p].pc, FALSE)
       ELSE /\ proc' = [proc EXCEPT ![p] =
                         IF proc[p].pc = "plausible"
                         THEN [@ EXCEPT !.pc = "stalled", !.waiting = "plausible"]
                         ELSE [@ EXCEPT !.pc = "stalled", !.waiting = proc[p].pc,
                                        !.called = TRUE, !.failed = TRUE,
                                        !.putCalled = @ \/ proc[p].pc = "put"]]
            /\ UNCHANGED <<client, cache, store, nops, webServer>>

Next ==
    \E p \in Procs :
        \/ \E prefix \in LookupPrefixes : StartLookup(p, prefix)
        \/ \E u \in Uploads : StartUpload(p, u)
        \/ UploadReadFails(p)
        \/ CallReturns(p)
        \/ CallFails(p)
        \/ CallStalls(p)

Spec == Init /\ [][Next]_vars

\* Two requests upload the same file at the same time: a goroutine starts an
\* UploadFile only when every other goroutine is unused or is in the middle of
\* an UploadFile of the same name and bytes.
ConcurrentSameUpload ==
    \E p \in Procs :
        \/ \E u \in Uploads :
              /\ \A q \in Procs \ {p} :
                    \/ proc[q].pc = "idle"
                    \/ Busy(q) /\ proc[q].op = "upload"
                               /\ proc[q].key = Filename(u.name, u.content)
              /\ StartUpload(p, u)
        \/ CallReturns(p)
        \/ CallFails(p)
        \/ CallStalls(p)

SpecSameUpload == Init /\ [][ConcurrentSameUpload]_vars

----------------------------------------------------------------------------
(* The web server in front of the storage client *)

\* "/zQtAT": the path of the public token of both contents
TokenPath == SLASH \o Take(Hash("f29738"), KEY_LENGTH)

\* "/zQtA": one character short of a token
ShortPath == SLASH \o Take(Hash("f29738"), KEY_LENGTH - 1)

\* the configured user "u" and password "p", and a wrong value "x"
UserU == <<117>>

PassP == <<112>>

WrongX == <<120>>

\* what request.BasicAuth() yields: <<>> without a parsable header, else <<user, pass>>
Credentials == { <<>>, <<UserU, PassP>>, <<UserU, WrongX>>, <<WrongX, PassP>> }

\* an http.Request: its method, URL.Path, URL.RawPath ("" when the path was
\* sent in its plain form), basic auth and multipart file; it has no query
\* and no Range or If- headers
Request(method, path, auth, upload) ==
    [method |-> method, path |-> path, rawPath |-> <<>>, auth |-> auth,
     upload |-> upload]

\* the request whose path was sent escaped, as rawPath
Escaped(req, rawPath) == [req EXCEPT !.rawPath = rawPath]

\* "/zQtA%54": the token path with its last character escaped
TokenRawPath == ShortPath \o <<37, 53, 52>>

\* the multipart file of the POST requests: sent with the file name
\* "d/b.PNG" and the Content-Type "image"
PostedFile == [name |-> SentDSlashBPNG, ctype |-> ImageBare, content |-> "f29738"]

\* "example.com": a Plausible domain
PlausibleDomain == <<101, 120, 97, 109, 112, 108, 101, 46, 99, 111, 109>>

\* the requests sent to the server; upload is <<>> or <<file>> (the form's "file" field)
Requests ==
    { Request("GET", path, <<>>, <<>>) :
        path \in { TokenPath,
                   TokenPath \o <<46, 116, 120, 116>>,      \* /zQtAT.txt
                   TokenPath \o <<46, 112, 110, 103>>,      \* /zQtAT.png
                   TokenPath \o <<46, 80, 78, 71>>,         \* /zQtAT.PNG
                   ShortPath,
                   PingPath,
                   StaticPrefix \o NameAppJs } }
      \cup { Request("GET", SLASH, a, <<>>) : a \in { <<>>, <<UserU, PassP>> } }
      \cup { Request("POST", SLASH, a, <<PostedFile>>) : a \in Credentials }
      \cup { Request("POST", SLASH, <<>>, <<>>),
             Escaped(Request("GET", TokenPath, <<>>, <<>>), TokenRawPath) }

\* a key without the "/" of <hash>/<name>, "zQtAT0", that something else put
\* in the bucket
ForeignStore ==
    PutObject(EmptyStore, Take(Hash("f29738"), KEY_LENGTH) \o <<48>>, TextPlain, "")

\* a key with a second "/" after the digest, <hash>/d/a, that something else
\* put in the bucket
NestedStore ==
    PutObject(EmptyStore, Hash("f29738") \o SLASH \o NameDSlashA, TextPlain, "f29738")

InitWeb ==
    /\ client \in { NewAWSClient(cdn) : cdn \in {<<>>, CDNBase} }
    /\ cache = <<>>
    /\ store \in {EmptyStore, ForeignStore, NestedStore}
    /\ proc = [p \in Procs |-> IdleProc]
    /\ nops = 0
    /\ webServer \in { NewWebServer(<<>>, <<>>, <<>>),
                       NewWebServer(UserU, PassP, PlausibleDomain) }

\* Router.ServeHTTP: the request is routed; a handler that needs the storage
\* client calls it (LookupFile and UploadFile begin with the cache check), the
\* others answer at once.  request.FormFile hands UploadHandler the file with
\* the base of the file name that was sent, and fails (http.ErrMissingFile)
\* when the form has no "file" part with a file name.  readable says whether
\* UploadFile can read and rewind the file (aws.go:97-105).
ServeHTTP(p, req, readable) ==
    /\ proc[p].pc \in {"idle", "done"}
    /\ nops < MaxOps
    /\ \E h \in {Router(webServer, req)} :
       LET r0 == [IdleProc EXCEPT !.req = <<req>>, !.route = h.handler, !.ext = h.ext]
           at(r) == [p |-> r, cache |-> cache]
           answer(status, page) ==
               at([r0 EXCEPT !.pc = "done", !.status = status, !.page = page])
           called(s) == [p |-> Respond(webServer, s.p), cache |-> s.cache]
           noFile == req.upload = <<>> \/ req.upload[1].name = <<>>
           s  == CASE h.handler \in {"LookupHandler", "DirectHandler"} ->
                        called(LookupStart([r0 EXCEPT !.op = "lookup", !.prefix = h.key,
                                                      !.hit = Cached(cache, h.key)],
                                           client, cache))
                   [] h.handler = "UploadHandler" /\ noFile ->
                        at(ServeError([r0 EXCEPT !.pc = "done"], "error"))
                   [] h.handler = "UploadHandler" /\ ~noFile /\ ~readable ->
                        called(at([r0 EXCEPT !.op = "upload", !.pc = "done",
                                             !.err = "error", !.failed = TRUE]))
                   [] h.handler = "UploadHandler" /\ ~noFile /\ readable ->
                        LET u    == req.upload[1]
                            name == Base(u.name)
                            key  == Filename(name, u.content)
                        IN  called(LookupStart(
                                [r0 EXCEPT !.op = "upload", !.name = name,
                                           !.ctype = u.ctype, !.content = u.content,
                                           !.key = key, !.prefix = key,
                                           !.prior = PriorUpload(key),
                                           !.hit = Cached(cache, key)],
                                client, cache))
                   [] h.handler = "FileServer" ->
                        at(FileServer([r0 EXCEPT !.pc = "done"], req.path))
                   [] h.handler = "IndexHandler"     -> answer(200, "index")
                   [] h.handler = "Heartbeat"        -> answer(200, ".")
                   [] h.handler = "Unauthorized"     -> answer(401, "Unauthorized")
                   [] h.handler = "MethodNotAllowed" -> answer(405, "none")
                   [] h.handler = "NotFound"         -> answer(404, "404 page not found")
       IN  /\ proc' = [proc EXCEPT ![p] = s.p]
           /\ cache' = s.cache
    /\ nops' = nops + 1
    /\ UNCHANGED <<client, store, webServer>>

NextWeb ==
    \E p \in Procs :
        \/ \E req \in Requests :
              \E readable \in (IF req.upload = <<>> THEN {TRUE} ELSE BOOLEAN) :
                 ServeHTTP(p, req, readable)
        \/ CallReturns(p)
        \/ CallFails(p)
        \/ CallStalls(p)

SpecWeb == InitWeb /\ [][NextWeb]_vars

----------------------------------------------------------------------------
(* The cache at its capacity *)

\* what LookupFile(prefix) returns from the bucket st when every call answers,
\* with a CDN configured: <<file>>, or <<>> for an error
ResolveIn(st, cl, prefix) ==
    LET l == ListObjectsV2(st, prefix)
    IN  IF Len(l) < 1 \/ Len(Split(l[1], 47)) < 2 THEN <<>>
        ELSE << StoredFile(Split(l[1], 47), cl.CDN \o SLASH \o QueryEscape(l[1]),
                           st[l[1]].ContentType) >>

\* "file1.txt"
NameFile1Txt == <<102,105,108,101,49,46,116,120,116>>

\* a bucket with three objects uploaded earlier
FilledStore ==
    PutObject(PutObject(EarlierStore,
                        Filename(NameATxt, "f52122"), TextPlain, "f52122"),
              Filename(NameFile1Txt, "hello world"), TextPlain, "hello world")

\* the prefixes of key with at least from characters, shortest first
Prefixes(key, from) == [i \in 1..(Len(key) - from + 1) |-> Take(key, from + i - 1)]

\* prefixes that lookups have asked for, in the order of the lookups: they are
\* all different, and each is the beginning of a key of FilledStore
Looked ==
    Prefixes(Filename(NameATxt, "f29738"), KEY_LENGTH)
        \o Prefixes(Filename(NameATxt, "f52122"), KEY_LENGTH + 1)
        \o Prefixes(Filename(NameFile1Txt, "hello world"), KEY_LENGTH)

\* the cache after lookups of the first n prefixes of Looked, each resolved
\* through the bucket; the latest is in front
WarmCache(n) ==
    [i \in 1..n |->
        [k |-> Looked[n + 1 - i],
         v |-> ResolveIn(FilledStore, NewAWSClient(CDNBase), Looked[n + 1 - i])[1]]]

\* the server has answered CacheSize - 1 or CacheSize different lookups
InitCache ==
    /\ client = NewAWSClient(CDNBase)
    /\ cache \in { WarmCache(n) : n \in {CacheSize - 1, CacheSize} }
    /\ store = FilledStore
    /\ proc = [p \in Procs |-> IdleProc]
    /\ nops = 0
    /\ webServer = NewWebServer(<<>>, <<>>, <<>>)

\* the next lookups: of the two prefixes used longest ago, of a recent one, and
\* of two that have not been looked up yet
NextPrefixes ==
    { Looked[1], Looked[2], Looked[CacheSize - 1], Looked[CacheSize + 1],
      Looked[CacheSize + 2] }

NextCache ==
    \E p \in Procs :
        \/ \E prefix \in NextPrefixes : StartLookup(p, prefix)
        \/ CallReturns(p)

SpecCache == InitCache /\ [][NextCache]_vars

----------------------------------------------------------------------------
(* Properties *)

UploadDone(p) == proc[p].pc = "done" /\ proc[p].op = "upload"

LookupDone(p) == proc[p].pc = "done" /\ proc[p].op = "lookup"

\* a lookup request that succeeded by resolving its prefix through the bucket
Resolved(p) == LookupDone(p) /\ proc[p].err = "nil" /\ proc[p].listCount > 0

\* the cache as a set of <<key, value>> entries, whatever their recency order
CacheEntries(c) == { <<c[i].k, c[i].v>> : i \in 1..Len(c) }

\* C1: an UploadFile of a name and content for which an UploadFile has already
\* returned a url, during which the backing store does not fail, returns that
\* same url and never invokes PutObject.
C1_SecondUploadDeduplicated ==
    \A p \in Procs :
        (proc[p].op = "upload" /\ proc[p].prior # <<>> /\ ~proc[p].failed)
            => /\ proc[p].pc \in {"list", "get", "presign", "done"}
               /\ ~proc[p].putCalled
               /\ proc[p].pc = "done" => (proc[p].err = "nil" /\ <<proc[p].url>> = proc[p].prior)

\* the second upload has returned, and its existence check went to the bucket
C1_Witness ==
    \E p \in Procs :
        /\ UploadDone(p) /\ proc[p].prior # <<>> /\ ~proc[p].failed
        /\ proc[p].called /\ proc[p].err = "nil"

\* C2 (as claimed): dedup is by exact key, so after every UploadFile that
\* returned a url the bucket holds an object under exactly <hash>/<name>.
C2_UploadStoresExactKey ==
    \A p \in Procs :
        (UploadDone(p) /\ proc[p].err = "nil") => proc[p].key \in DOMAIN store

\* C3 (as claimed): all successful lookups of one prefix that resolve through
\* the bucket resolve to the same full key, whatever was uploaded in between.
C3_TokenResolvesToOneKeyForever ==
    \A p, q \in Procs :
        (Resolved(p) /\ Resolved(q) /\ proc[p].prefix = proc[q].prefix)
            => proc[p].objectKey = proc[q].objectKey

\* C3 (amended): lookups of one prefix that list the same bucket contents
\* resolve to the same full key, and a lookup that lists a later bucket resolves
\* to that key or to one that sorts before it: an upload changes what a token
\* resolves to only by storing a key that sorts first among those it matches.
C3_TokenResolvesToFirstKey ==
    \A p, q \in Procs :
        (Resolved(p) /\ Resolved(q) /\ proc[p].prefix = proc[q].prefix
            /\ proc[p].listedAt <= proc[q].listedAt)
            => /\ HasPrefix(proc[q].objectKey, proc[q].prefix)
               /\ proc[q].objectKey \in DOMAIN store
               /\ \/ proc[q].objectKey = proc[p].objectKey
                  \/ /\ proc[p].listedAt < proc[q].listedAt
                     /\ StrLess(proc[q].objectKey, proc[p].objectKey)

\* two lookups of the same token resolved, through the bucket, to different keys
C3_Witness ==
    \E p, q \in Procs :
        /\ Resolved(p) /\ Resolved(q) /\ proc[p].prefix = proc[q].prefix
        /\ Len(proc[p].prefix) = KEY_LENGTH
        /\ proc[p].listedAt < proc[q].listedAt
        /\ proc[q].objectKey # proc[p].objectKey

\* C4: a lookup whose prefix is in the cache returns the cached file without
\* any backing-store call; and with a CDN configured every successful lookup
\* leaves its prefix in the cache, so that a repeated lookup is such a hit.
C4_CacheHitSkipsStore ==
    \A p \in Procs :
        /\ (proc[p].op = "lookup" /\ proc[p].hit # <<>>)
              => /\ proc[p].pc = "done"
                 /\ ~proc[p].called
                 /\ proc[p].err = "nil"
                 /\ proc[p].file = proc[p].hit
        /\ (LookupDone(p) /\ proc[p].err = "nil" /\ client.CDN # <<>>)
              => proc[p].prefix \in CacheKeys(cache)

\* a lookup was answered from the cache
C4_Witness ==
    \E p \in Procs :
        /\ LookupDone(p) /\ proc[p].hit # <<>> /\ ~proc[p].called
        /\ client.CDN # <<>>

\* C5: the cache exists exactly when a CDN is configured; no cache entry holds a
\* url of the presign client; without a CDN every lookup goes to the backing
\* store and nothing is stored in the cache.
C5_SignedUrlsNeverCached ==
    /\ client.cacheOn <=> (client.CDN # <<>>)
    /\ \A i \in 1..Len(cache) :
          cache[i].v.Url \notin { PresignGetObject(k) : k \in DOMAIN store }
    /\ client.CDN = <<>> =>
          /\ cache = <<>>
          /\ \A p \in Procs : LookupDone(p) => proc[p].called

\* without a CDN a lookup returned a presigned url, and the cache is empty
C5_Witness ==
    \E p \in Procs :
        /\ client.CDN = <<>>
        /\ LookupDone(p) /\ proc[p].err = "nil"
        /\ proc[p].file[1].Url = PresignGetObject(proc[p].objectKey)
        /\ cache = <<>>

\* C6 (as claimed): no step of an UploadFile changes the entries of the cache.
C6_UploadLeavesCache ==
    [][ \A p \in Procs :
            (proc'[p] # proc[p] /\ proc'[p].op = "upload")
                => CacheEntries(cache') = CacheEntries(cache) ]_vars

\* C7 (as claimed): a lookup returns ErrorObjectMissing only when its listing
\* succeeded with zero matches; every failure or timeout is another error.
C7_MissingOnlyOnEmptyListing ==
    \A p \in Procs :
        (LookupDone(p) /\ proc[p].err = "ErrorObjectMissing")
            => (proc[p].listCount = 0 /\ ~proc[p].failed)

\* C8 (as claimed): an UploadFile during which a backing-store call failed
\* returns an error and no url.
C8_UploadPropagatesFailures ==
    \A p \in Procs :
        (UploadDone(p) /\ proc[p].failed)
            => (proc[p].err # "nil" /\ proc[p].url = <<>>)

\* C9 (as claimed): two concurrent UploadFile calls of the same name and bytes
\* that both return a url return the same one, and the bucket then holds the
\* object under their key with those bytes.
C9_ConcurrentUploadsStoreOneObject ==
    \A p, q \in Procs :
        (p # q /\ UploadDone(p) /\ UploadDone(q)
            /\ proc[p].err = "nil" /\ proc[q].err = "nil"
            /\ proc[p].key = proc[q].key)
            => /\ proc[p].url = proc[q].url
               /\ proc[p].key \in DOMAIN store
               /\ store[proc[p].key].Body = proc[p].content

\* C10 (as claimed): every call runs under a deadline, so no goroutine is left
\* blocked in a call that the backing store never answers.
C10_NoGoroutineHeldByStalledCall ==
    \A p \in Procs : proc[p].pc # "stalled"

\* C11: on a cache miss a lookup that resolves returns, with a CDN configured,
\* the CDN base, "/" and the URL-escaped full key (the separator of the key
\* escaped as %2F) and the presign client is never called; without a CDN it
\* returns exactly the url the presign client produced.
C11_UrlFromCdnOrPresign ==
    \A p \in Procs :
        /\ client.CDN # <<>> => proc[p].pc # "presign"
        /\ (Resolved(p) /\ client.CDN # <<>>)
              => /\ proc[p].file[1].Url = client.CDN \o SLASH \o QueryEscape(proc[p].objectKey)
                 /\ LET esc == SubSeq(proc[p].file[1].Url, Len(CDNBase) + 2,
                                       Len(proc[p].file[1].Url))
                        n   == Cardinality({ i \in 1..Len(proc[p].objectKey) :
                                                proc[p].objectKey[i] = 47 })
                    IN  /\ HasPrefix(proc[p].file[1].Url, CDNBase \o SLASH)
                        /\ \A i \in 1..Len(esc) : esc[i] # 47
                        /\ Len(esc) = Len(proc[p].objectKey) + 2 * n
                        /\ HasPrefix(esc, Split(proc[p].objectKey, 47)[1] \o <<37, 50, 70>>)
                 /\ proc[p].file[1].Url # PresignGetObject(proc[p].objectKey)
        /\ (Resolved(p) /\ client.CDN = <<>>)
              => proc[p].file[1].Url = PresignGetObject(proc[p].objectKey)

\* with a CDN a lookup missed the cache, went to the bucket and returned a url
C11_Witness ==
    \E p \in Procs :
        /\ client.CDN # <<>> /\ Resolved(p) /\ proc[p].hit = <<>> /\ proc[p].called
        /\ HasPrefix(proc[p].file[1].Url, CDNBase \o SLASH)

\* C13: a lookup whose prefix is not in the cache and whose listing answers
\* with zero matches returns ErrorObjectMissing and no file, without any
\* further call.
C13_EmptyListingIsMissing ==
    \A p \in Procs :
        (proc[p].op = "lookup" /\ proc[p].listCount = 0)
            => /\ proc[p].pc = "done"
               /\ proc[p].err = "ErrorObjectMissing"
               /\ proc[p].file = <<>>
               /\ proc[p].objectKey = <<>>
               /\ proc[p].hit = <<>>

\* a lookup listed a bucket with no key under its prefix
C13_Witness ==
    \E p \in Procs :
        /\ LookupDone(p) /\ proc[p].listCount = 0 /\ ~proc[p].failed
        /\ \A k \in DOMAIN store : ~HasPrefix(k, proc[p].prefix)

\* C14: an UploadFile that succeeds returns "/" followed by exactly the first
\* KEY_LENGTH characters of the digest of the content, KEY_LENGTH + 1
\* characters in all, whether it wrote the object or found it already stored.
C14_UploadReturnsShortToken ==
    \A p \in Procs :
        (UploadDone(p) /\ proc[p].err = "nil")
            => /\ proc[p].url = SLASH \o Take(Hash(proc[p].content), KEY_LENGTH)
               /\ Len(proc[p].url) = KEY_LENGTH + 1
               /\ proc[p].url = <<47, 122, 81, 116, 65, 84>>
               /\ HasPrefix(proc[p].key, Tail(proc[p].url))

\* one upload returned after writing its object, another after finding it stored
C14_Witness ==
    \E p, q \in Procs :
        /\ UploadDone(p) /\ proc[p].err = "nil" /\ proc[p].putCalled
        /\ UploadDone(q) /\ proc[q].err = "nil" /\ ~proc[q].putCalled
        /\ Len(proc[p].url) = KEY_LENGTH + 1 /\ Len(proc[q].url) = KEY_LENGTH + 1

\* the key that UploadFile computed for the upload of goroutine p
Keyed(p) == proc[p].op = "upload" /\ proc[p].key # <<>>

\* C15: Filename is a function of name and content: equal name and content
\* give equal keys; the same content under two different names gives two
\* different keys with the same digest before the first "/"; and what follows
\* that "/" is the name, unchanged.
C15_FilenameIsHashSlashName ==
    \A p, q \in Procs :
        (Keyed(p) /\ Keyed(q))
            => /\ (proc[p].name = proc[q].name /\ proc[p].content = proc[q].content)
                     => proc[p].key = proc[q].key
               /\ (proc[p].name # proc[q].name /\ proc[p].content = proc[q].content)
                     => /\ Split(proc[p].key, 47)[1] = Split(proc[q].key, 47)[1]
                        /\ proc[p].key # proc[q].key
               /\ Split(proc[p].key, 47)[1] = Hash(proc[p].content)
               /\ SubSeq(proc[p].key, Len(Hash(proc[p].content)) + 2, Len(proc[p].key))
                     = proc[p].name

\* two uploads of the same content under different names have their keys
C15_Witness ==
    \E p, q \in Procs :
        /\ Keyed(p) /\ Keyed(q)
        /\ proc[p].content = proc[q].content /\ proc[p].name # proc[q].name
        /\ proc[p].key # proc[q].key

\* "image/"
ImageSlash == <<105, 109, 97, 103, 101, 47>>

\* C16 (as claimed): a lookup that resolves returns Image = TRUE exactly when
\* the stored content type begins with "image/".
C16_ImageIffBeginsWithImageSlash ==
    \A p \in Procs :
        Resolved(p) => (proc[p].file[1].Image <=> HasPrefix(proc[p].objCtype, ImageSlash))

\* C16 (amended): a lookup that resolves returns Image = TRUE exactly when the
\* stored content type begins with "image/" or is the bare value "image".
C16_ImageIffTopLevelTypeImage ==
    \A p \in Procs :
        Resolved(p) =>
            (proc[p].file[1].Image <=>
                (HasPrefix(proc[p].objCtype, ImageSlash) \/ proc[p].objCtype = ImageBare))

\* a lookup resolved an object stored with the content type "image"
C16_Witness ==
    \E p \in Procs :
        /\ Resolved(p) /\ proc[p].objCtype = ImageBare /\ proc[p].file[1].Image
        /\ store[proc[p].objectKey].ContentType = ImageBare

\* goroutine p has answered an HTTP request
Served(p) == proc[p].req # <<>> /\ proc[p].pc = "done"

\* C12 (as claimed): a lookup whose listing answered with a key that has no
\* "/" returns ErrorInvalidKey and no file.
C12_SeparatorlessKeyIsInvalid ==
    \A p \in Procs :
        (LookupDone(p) /\ proc[p].listCount > 0
            /\ \A i \in 1..Len(proc[p].objectKey) : proc[p].objectKey[i] # 47)
            => (proc[p].err = "ErrorInvalidKey" /\ proc[p].file = <<>>)

\* C17: GET /<key>.<ext> is answered 301, with the resolved url as Location,
\* exactly when LookupFile succeeded and the extension of the resolved
\* original name equals <ext>, both in lower case; when LookupFile succeeded
\* and they differ the answer is 404 without a Location.  For the file "b.PNG":
\* /zQtAT.png and /zQtAT.PNG redirect, /zQtAT.txt does not.  A request that
\* waits for Plausible, or is held by it, is one that will be redirected.
C17_RedirectIffExtensionMatches ==
    \A p \in Procs :
        /\ (proc[p].pc = "plausible" \/ proc[p].waiting = "plausible")
              => /\ proc[p].route = "DirectHandler" /\ proc[p].err = "nil"
                 /\ proc[p].status = 0 /\ webServer.Plausible # <<>>
                 /\ ToLower(Ext(proc[p].file[1].OriginalName))
                       = <<46>> \o ToLower(proc[p].ext)
        /\ (Served(p) /\ proc[p].route = "DirectHandler")
            => LET r     == proc[p]
                   match == /\ r.err = "nil"
                            /\ ToLower(Ext(r.file[1].OriginalName)) = <<46>> \o ToLower(r.ext)
               IN  /\ r.status = 301 <=> match
                   /\ match => (r.location = r.file[1].Url /\ r.location # <<>>)
                   /\ (r.err = "nil" /\ ~match) => (r.status = 404 /\ r.location = <<>>)
                   /\ (r.err = "nil" /\ r.file[1].OriginalName = NameBPNG)
                         => (r.status = 301 <=>
                                r.req[1].path \in { TokenPath \o <<46, 112, 110, 103>>,
                                                    TokenPath \o <<46, 80, 78, 71>> })

\* GET /zQtAT.png was redirected to the url of the file "b.PNG"
C17_Witness ==
    \E p \in Procs :
        /\ Served(p) /\ proc[p].route = "DirectHandler" /\ proc[p].status = 301
        /\ proc[p].file[1].OriginalName = NameBPNG
        /\ proc[p].req[1].path = TokenPath \o <<46, 112, 110, 103>>
        /\ proc[p].location = proc[p].file[1].Url

\* C18: GET /<key> answers ErrorObjectMissing with 404 and the "404" page,
\* every other error of LookupFile with 500, and a success with 200 and the
\* "file" page; no request whose storage call returned an error is answered
\* with a 2xx status or a redirect.
C18_LookupErrorsToStatus ==
    \A p \in Procs :
        Served(p) =>
            /\ proc[p].route = "LookupHandler" =>
                  /\ proc[p].err = "ErrorObjectMissing"
                        => (proc[p].status = 404 /\ proc[p].page = "404")
                  /\ proc[p].err \notin {"nil", "ErrorObjectMissing"}
                        => proc[p].status = 500
                  /\ proc[p].err = "nil"
                        => (proc[p].status = 200 /\ proc[p].page = "file")
            /\ proc[p].err # "nil"
                  => (proc[p].status \notin 200..399 /\ proc[p].location = <<>>)

\* GET /zQtAT was answered 500 after LookupFile returned ErrorInvalidKey
C18_Witness ==
    \E p \in Procs :
        /\ Served(p) /\ proc[p].route = "LookupHandler"
        /\ proc[p].err = "ErrorInvalidKey" /\ proc[p].status = 500

\* a GET of "/" and one to KEY_LENGTH - 1 characters of the token alphabet
ShortCandidate(req) ==
    /\ req.method = "GET"
    /\ Len(req.path) \in 2..KEY_LENGTH
    /\ req.path[1] = 47
    /\ KeyReAnyLength(Tail(req.path))

\* C19 (as claimed): every GET of a candidate shorter than KEY_LENGTH is
\* answered 404 and never reaches LookupFile.
C19_ShortCandidateIs404 ==
    \A p \in Procs :
        (Served(p) /\ ShortCandidate(proc[p].req[1]))
            => (proc[p].status = 404 /\ proc[p].op = "none")

\* C19 (amended): no GET of a candidate shorter than KEY_LENGTH reaches
\* LookupFile; it is answered 404, except the heartbeat path /ping, which is
\* answered 200.
C19_ShortCandidateNeverLooksUp ==
    \A p \in Procs :
        (proc[p].req # <<>> /\ ShortCandidate(proc[p].req[1]))
            => /\ proc[p].pc = "done"
               /\ proc[p].op = "none" /\ ~proc[p].called
               /\ proc[p].status =
                      IF ToLower(proc[p].req[1].path) = PingPath THEN 200 ELSE 404

\* GET /zQtA was answered 404 by the router
C19_Witness ==
    \E p \in Procs :
        /\ Served(p) /\ proc[p].req[1].path = ShortPath
        /\ proc[p].status = 404 /\ proc[p].route = "NotFound"

\* C20: with a user and a password configured, a GET / or POST / is answered
\* 401, without a call of the storage client, unless its basic auth equals
\* both; with both equal it is not answered 401; the lookup routes call
\* LookupFile for requests without credentials.
C20_RootNeedsBothCredentials ==
    \A p \in Procs :
        proc[p].req # <<>> =>
            LET req == proc[p].req[1]
            IN  /\ (RoutePath(req) = SLASH /\ webServer.User # <<>> /\ webServer.Pass # <<>>)
                      => IF req.auth = <<webServer.User, webServer.Pass>>
                         THEN proc[p].status # 401
                         ELSE /\ proc[p].pc = "done" /\ proc[p].status = 401
                              /\ proc[p].op = "none" /\ ~proc[p].called
                /\ (RoutePath(req) # SLASH
                        /\ KeyRe(Take(Tail(RoutePath(req)), KEY_LENGTH))
                        /\ Len(RoutePath(req)) > KEY_LENGTH
                        /\ \A i \in 2..Len(RoutePath(req)) : RoutePath(req)[i] # 47)
                      => (proc[p].op = "lookup" /\ proc[p].status # 401)

\* a POST / with the right user and a wrong password was answered 401, while
\* another with both right went on to UploadFile
C20_Witness ==
    \E p, q \in Procs :
        /\ webServer.User # <<>>
        /\ Served(p) /\ proc[p].req[1].method = "POST"
        /\ proc[p].req[1].auth = <<UserU, WrongX>> /\ proc[p].status = 401
        /\ proc[q].req # <<>> /\ proc[q].req[1].auth = <<UserU, PassP>>
        /\ proc[q].op = "upload"

\* C21: a lookup of a token that an UploadFile had returned before the lookup
\* started, during which no call fails, succeeds: it never returns
\* ErrorObjectMissing, with or without a cache.
C21_IssuedTokenIsFound ==
    \A p \in Procs :
        (proc[p].op = "lookup" /\ proc[p].prior # <<>> /\ ~proc[p].failed)
            => /\ proc[p].listCount # 0
               /\ proc[p].pc = "done" => (proc[p].err = "nil" /\ proc[p].file # <<>>)

\* without a cache, a lookup of an issued token went to the bucket and succeeded
C21_Witness ==
    \E p \in Procs :
        /\ LookupDone(p) /\ proc[p].prior # <<>> /\ ~proc[p].failed
        /\ proc[p].called /\ proc[p].err = "nil" /\ client.CDN = <<>>

\* goroutine q's UploadFile returned the token that goroutine p's lookup
\* resolved, whether that UploadFile wrote its object or found one by its
\* existence check, and the lookup listed the bucket as it is now
RoundTrip(q, p) ==
    /\ UploadDone(q) /\ proc[q].err = "nil"
    /\ Resolved(p) /\ proc[q].url = SLASH \o proc[p].prefix
    /\ proc[p].listedAt = Cardinality(DOMAIN store)

\* C22 (as claimed): a lookup of the token that an UploadFile of name returned
\* returns OriginalName = name, whatever else was uploaded.
C22_LookupReturnsUploadedName ==
    \A p, q \in Procs :
        RoundTrip(q, p) => proc[p].file[1].OriginalName = proc[q].name

\* C22 (amended): such a lookup resolves the first stored key, in key order,
\* that begins with the token, and returns the name of the upload that wrote
\* that key; that is the uploaded name when the key of this upload is that
\* first key, and the name of another upload otherwise.
C22_LookupReturnsNameOfFirstKey ==
    \A p, q \in Procs :
        RoundTrip(q, p) =>
            /\ proc[p].objectKey \in DOMAIN store
            /\ HasPrefix(proc[p].objectKey, proc[p].prefix)
            /\ \A key \in DOMAIN store :
                  HasPrefix(key, proc[p].prefix)
                      => (key = proc[p].objectKey \/ StrLess(proc[p].objectKey, key))
            /\ \E u \in Uploads :
                  /\ proc[p].objectKey = Filename(u.name, u.content)
                  /\ proc[p].file[1].OriginalName = u.name
            /\ proc[p].objectKey = Filename(proc[q].name, proc[q].content)
                  <=> (/\ proc[p].file[1].OriginalName = proc[q].name
                       /\ Split(proc[p].objectKey, 47)[1] = Hash(proc[q].content))

\* an upload wrote its object, and a lookup of its token returned its name
C22_Witness ==
    \E p, q \in Procs :
        /\ RoundTrip(q, p) /\ proc[q].putCalled
        /\ proc[p].file[1].OriginalName = proc[q].name
        /\ proc[p].objectKey = proc[q].key

\* C29 (as claimed): a lookup that resolves returns as OriginalName all of the
\* key after its first "/", also when that remainder has a "/" in it (a file
\* name reaches UploadFile from POST / without its directories, so such a key
\* is one that something else wrote).
C29_NameIsWholeRemainder ==
    \A p \in Procs :
        Resolved(p) =>
            proc[p].file[1].OriginalName
                = SubSeq(proc[p].objectKey, Len(Split(proc[p].objectKey, 47)[1]) + 2,
                         Len(proc[p].objectKey))

\* C30: while the bucket holds only objects that UploadFile wrote, every
\* stored key is a digest, "/" and a name, and no lookup and no existence
\* check of an upload ends in ErrorInvalidKey.
C30_UploadedKeysAreWellFormed ==
    /\ \A k \in DOMAIN store :
          /\ Len(Split(k, 47)) >= 2
          /\ Split(k, 47)[1] \in { Hash(c) : c \in Contents }
    /\ \A p \in Procs : proc[p].err # "ErrorInvalidKey"

\* a lookup resolved a key that an UploadFile of this run wrote
C30_Witness ==
    \E p, q \in Procs :
        /\ Resolved(p) /\ UploadDone(q) /\ proc[q].putCalled /\ proc[q].err = "nil"
        /\ proc[p].objectKey = proc[q].key
        /\ Len(Split(proc[p].objectKey, 47)) >= 2

\* what LookupFile(prefix) returns now when it resolves through the bucket with
\* a CDN configured and every call answers: <<file>>, or <<>> for an error
ResolveNow(prefix) == ResolveIn(store, client, prefix)

\* C23 (as claimed): in every state each cache entry holds what a lookup of its
\* key through the bucket would return now.
C23_CacheEqualsStore ==
    \A i \in 1..Len(cache) : <<cache[i].v>> = ResolveNow(cache[i].k)

\* the entries of the cache c name stored keys of the bucket st, and the name
\* and url of an entry are those that a lookup of its key through st returns
\* exactly when no stored key beginning with the entry's key sorts before the
\* one it names
NameAndUrlWhileFirst(c, st, cl) ==
    \A i \in 1..Len(c) :
        \E key \in DOMAIN st :
            /\ HasPrefix(key, c[i].k)
            /\ c[i].v.Url = cl.CDN \o SLASH \o QueryEscape(key)
            /\ LET now == ResolveIn(st, cl, c[i].k)
               IN  (\A other \in DOMAIN st :
                        HasPrefix(other, c[i].k) => (other = key \/ StrLess(key, other)))
                   <=> /\ now # <<>>
                       /\ now[1].OriginalName = c[i].v.OriginalName
                       /\ now[1].Url = c[i].v.Url

\* C23 (amended): a cache hit returns the entry as it is, and an entry is what
\* the lookup that stored it resolved: the key its listing answered was then
\* the first stored key, in key order, beginning with the entry's key, and the
\* entry holds the name and url of that key and whether the content type that
\* its fetch returned has the top-level type "image". No other step changes an
\* entry, so its name and url are those that a lookup through the bucket would
\* return now exactly as long as no key that sorts before that one has been
\* stored under the entry's key.
C23_CacheHoldsWhatItsLookupResolved ==
    [][ /\ \A p \in Procs :
              (proc[p].pc = "list" /\ proc'[p].pc = "get")
                  => /\ proc'[p].objectKey \in DOMAIN store
                     /\ HasPrefix(proc'[p].objectKey, proc[p].prefix)
                     /\ \A key \in DOMAIN store :
                           HasPrefix(key, proc[p].prefix)
                               => (key = proc'[p].objectKey
                                     \/ StrLess(proc'[p].objectKey, key))
        /\ \A e \in CacheEntries(cache') \ CacheEntries(cache) :
              \E p \in Procs :
                  /\ proc[p].pc = "get" /\ proc'[p].pc # "get"
                  /\ proc[p].prefix = e[1]
                  /\ e[2].Url = client.CDN \o SLASH \o QueryEscape(proc[p].objectKey)
                  /\ \E u \in Uploads :
                        /\ proc[p].objectKey = Filename(u.name, u.content)
                        /\ e[2].OriginalName = u.name
                  /\ e[2].Image
                        <=> Split(store[proc[p].objectKey].ContentType, 47)[1] = ImageBare
                  /\ proc[p].op = "lookup" => proc'[p].file = <<e[2]>>
        /\ \A p \in Procs :
              (nops' # nops /\ proc'[p] # proc[p]
                 /\ proc'[p].op = "lookup" /\ proc'[p].hit # <<>>)
                  => /\ proc'[p].prefix \in CacheKeys(cache)
                     /\ proc'[p].file = <<CacheValue(cache, proc'[p].prefix)>>
                     /\ CacheEntries(cache') = CacheEntries(cache)
        /\ NameAndUrlWhileFirst(cache', store', client') ]_vars

\* the cache holds under a token the name and url of a key that a lookup
\* resolved and returned, and a lookup through the bucket would now return the
\* name and url of another key
C23_Witness ==
    \E i \in 1..Len(cache) :
        /\ Len(cache[i].k) = KEY_LENGTH
        /\ ResolveNow(cache[i].k) # <<>>
        /\ ResolveNow(cache[i].k)[1].OriginalName # cache[i].v.OriginalName
        /\ ResolveNow(cache[i].k)[1].Url # cache[i].v.Url
        /\ \E p \in Procs : LookupDone(p) /\ proc[p].file = <<cache[i].v>>

\* C24 (as claimed): a lookup whose listing answered with a key that has no "/"
\* ends in ErrorInvalidKey without invoking GetObject for it.
C24_KeyShapeCheckedBeforeFetch ==
    \A p \in Procs :
        (proc[p].op = "lookup" /\ proc[p].objectKey # <<>>
            /\ \A i \in 1..Len(proc[p].objectKey) : proc[p].objectKey[i] # 47)
            => /\ proc[p].pc # "get"
               /\ proc[p].pc = "done" => proc[p].err = "ErrorInvalidKey"

\* C25: when the listing has answered with a key and the GetObject for that
\* key fails or times out, the lookup returns ErrorObjectMissing and no file.
C25_GetObjectErrorIsMissing ==
    [][ \A p \in Procs :
            (proc[p].op = "lookup" /\ proc[p].pc = "get" /\ proc'[p].failed)
                => /\ proc'[p].pc = "done"
                   /\ proc'[p].err = "ErrorObjectMissing"
                   /\ proc'[p].file = <<>> ]_vars

\* a lookup returned after the GetObject for its listed key had failed
C25_Witness ==
    \E p \in Procs :
        /\ LookupDone(p) /\ proc[p].listCount > 0 /\ proc[p].failed
        /\ proc[p].objCtype = <<>> /\ proc[p].err = "ErrorObjectMissing"

\* C26 (as claimed): no step changes the bytes or the content type stored
\* under a key that the bucket already holds.
C26_StoredObjectNeverChanges ==
    [][ \A k \in DOMAIN store : k \in DOMAIN store' /\ store'[k] = store[k] ]_vars

\* C27 (as claimed): every key of the cache has exactly KEY_LENGTH characters.
C27_CacheKeysAreTokens ==
    \A i \in 1..Len(cache) : Len(cache[i].k) = KEY_LENGTH

\* the keys of the cache, in the order of its entries
KeySeq(c) == [i \in 1..Len(c) |-> c[i].k]

\* this step is a lookup of goroutine p that the cache answers
HitStep(p) ==
    /\ nops' # nops
    /\ proc'[p].op = "lookup" /\ proc'[p].hit # <<>>
    /\ \A q \in Procs \ {p} : proc'[q] = proc[q]

\* this step ends a lookup of goroutine p that resolved through the bucket
InsertStep(p) ==
    /\ nops' = nops
    /\ proc[p].pc = "get" /\ proc'[p].pc = "done" /\ proc'[p].err = "nil"

\* the order of the keys after a use of key: key in front, the others as they
\* were, and what does not fit in CacheSize entries dropped from the end
AfterUse(keys, key) ==
    LET others == SelectSeq(keys, LAMBDA k : k # key)
    IN  <<key>> \o SubSeq(others, 1, IF Len(others) < CacheSize - 1
                                      THEN Len(others) ELSE CacheSize - 1)

\* C28: the cache never holds more than CacheSize entries, and its entries
\* stay in the order of their last use, a hit and an insertion both being a
\* use: a step that uses a key puts it in front and keeps the order of the
\* others, and an insertion into a full cache drops the entry at the end, the
\* one used longest ago; no other step changes the cache.
C28_CacheIsBoundedLru ==
    [][ /\ Len(cache') <= CacheSize
        /\ Cardinality(CacheKeys(cache')) = Len(cache')
        /\ IF \E p \in Procs : HitStep(p) \/ InsertStep(p)
           THEN \E p \in Procs :
                    /\ HitStep(p) \/ InsertStep(p)
                    /\ KeySeq(cache') = AfterUse(KeySeq(cache), proc'[p].prefix)
           ELSE cache' = cache ]_vars

\* in a full cache the entry used longest ago was hit, and the insertion of a
\* new entry then evicted the one used second longest ago
C28_Witness ==
    /\ Len(cache) = CacheSize
    /\ Looked[1] \in CacheKeys(cache)
    /\ Looked[2] \notin CacheKeys(cache)
    /\ cache[1].k = Looked[CacheSize + 1]
    /\ cache[2].k = Looked[1]

====
